---- MODULE Spec2Model ----
(***************************************************************************)
(* Configuration loading and validation of whitebox-controller             *)
(* (src/config/config.go, the revision of lines 1-405).                    *)
(*                                                                         *)
(* Go values are represented as follows.                                   *)
(*   - a string is a TLA+ string; the empty string is "".                  *)
(*   - a duration string (a field handed to time.ParseDuration) is a       *)
(*     sequence of one-character strings, so that it can be scanned.       *)
(*   - a pointer is Null (the nil pointer) or Ptr(v), a one-element tuple. *)
(*   - an error is a string, the text of err.Error(); nil is the value nil.*)
(*   - fields a Validate method never reads (Args, Env, WorkingDir, Debug, *)
(*     Observe, Orphan, Host, CACertFile) are left out of the records.     *)
(***************************************************************************)
EXTENDS Integers, Sequences, FiniteSets, TLC

VARIABLES
    pc,     \* position of the running call
    recv,   \* receiver of a directly called Validate method
    file,   \* the file LoadFile is given
    c,      \* the *Config LoadFile unmarshals into
    i,      \* loop index of Config.Validate (0-based, as in Go)
    err,    \* the error value computed so far / returned
    ret     \* the *Config LoadFile returns

vars == <<pc, recv, file, c, i, err, ret>>

\* ---------------------------------------------------------------- bounds

MaxControllers == 2
MaxReferences == 2
MaxDependents == 2

\* ------------------------------------------------------- Go value helpers

Null == <<>>
Ptr(v) == <<v>>
Deref(p) == p[1]

nil == "<nil>"

\* fmt.Errorf("<prefix>: %v", err)
Wrap(prefix, e) == prefix \o ": " \o e

\* fmt.Errorf("<prefix>[%d]: %v", i, err)
WrapIndex(prefix, n, e) == prefix \o "[" \o ToString(n) \o "]: " \o e

\* Sequences over S of length at most n.
SeqUpTo(S, n) == UNION {[1..k -> S] : k \in 0..n}

\* ------------------------------------------------------------ environment

\* The files that exist in the file system the process runs in.
ExistingFiles == {"verify.pem", "cert.pem", "key.pem"}

\* os.Stat(p): nil when p names an existing file; the empty path never does.
Stat(p) ==
    IF p \in ExistingFiles THEN nil
    ELSE "stat " \o p \o ": no such file or directory"

\* schema.GroupVersionKind.Empty(): all three components are empty.
GVKEmpty(gvk) == gvk.Group = "" /\ gvk.Version = "" /\ gvk.Kind = ""

\* ------------------------------------------------------ time.ParseDuration

IsDigit(ch) == ch \in {"0", "1", "2", "3", "4", "5", "6", "7", "8", "9"}

UnitMap ==
    {<<"n", "s">>, <<"u", "s">>, <<"m", "s">>, <<"s">>, <<"m">>, <<"h">>}

Drop(s, n) == SubSeq(s, n + 1, Len(s))

\* Number of leading decimal digits of s (leadingInt / leadingFraction).
RECURSIVE LeadingDigits(_)
LeadingDigits(s) ==
    IF s # <<>> /\ IsDigit(s[1]) THEN 1 + LeadingDigits(Tail(s)) ELSE 0

\* Number of leading characters of s that are neither '.' nor a digit.
RECURSIVE UnitLength(_)
UnitLength(s) ==
    IF s # <<>> /\ s[1] # "." /\ ~IsDigit(s[1])
    THEN 1 + UnitLength(Tail(s)) ELSE 0

\* The loop of ParseDuration: ([0-9]*(\.[0-9]*)?[a-z]+)+
RECURSIVE ParseGroups(_)
ParseGroups(s) ==
    IF s = <<>> THEN nil
    ELSE IF ~(s[1] = "." \/ IsDigit(s[1])) THEN "time: invalid duration"
    ELSE
        LET n      == LeadingDigits(s)
            pre    == n > 0
            s2     == Drop(s, n)
            dot    == s2 # <<>> /\ s2[1] = "."
            f      == IF dot THEN LeadingDigits(Tail(s2)) ELSE 0
            post   == f > 0
            s3     == IF dot THEN Drop(Tail(s2), f) ELSE s2
            u      == UnitLength(s3)
        IN  IF ~pre /\ ~post THEN "time: invalid duration"
            ELSE IF u = 0 THEN "time: missing unit in duration"
            ELSE IF SubSeq(s3, 1, u) \notin UnitMap
                 THEN "time: unknown unit in duration"
            ELSE ParseGroups(Drop(s3, u))

\* time.ParseDuration(s), reduced to its error result: [-+]? then "0" or the
\* groups above.  (Overflow of the int64 value needs more than 18 digits.)
ParseDuration(s) ==
    LET t == IF s # <<>> /\ s[1] \in {"-", "+"} THEN Tail(s) ELSE s
    IN  IF t = <<"0">> THEN nil
        ELSE IF t = <<>> THEN "time: invalid duration"
        ELSE ParseGroups(t)

\* ------------------------------------------------------ handler validators

\* Mutant of ExecHandlerConfigValidate: the timeout is not parsed.
ExecHandlerConfigValidateNoTimeout(h) ==
    IF h.Command = "" THEN "command must be specified" ELSE nil

\* func (c ExecHandlerConfig) Validate() error
ExecHandlerConfigValidate(h) ==
    IF h.Command = "" THEN "command must be specified"
    ELSE IF h.Timeout # <<>> /\ ParseDuration(h.Timeout) # nil
         THEN Wrap("invalid timeout", ParseDuration(h.Timeout))
    ELSE nil

\* func (c *HTTPHanlderTLSConfig) Validate() error
HTTPHanlderTLSConfigValidate(t) ==
    IF t.CertFile # "" THEN "cert file must be specified"
    ELSE IF t.KeyFile # "" THEN "key file must be specified"
    ELSE nil

\* func (c HTTPHandlerConfig) Validate() error
HTTPHandlerConfigValidate(h) ==
    IF h.URL = "" THEN "url must be specified"
    ELSE IF h.TLS # Null /\ HTTPHanlderTLSConfigValidate(Deref(h.TLS)) # nil
         THEN Wrap("tls", HTTPHanlderTLSConfigValidate(Deref(h.TLS)))
    ELSE IF h.Timeout # <<>> /\ ParseDuration(h.Timeout) # nil
         THEN Wrap("invalid timeout", ParseDuration(h.Timeout))
    ELSE nil

\* func (c *FuncHandlerConfig) Validate() error
FuncHandlerConfigValidate(h) ==
    IF h.Handler = Null THEN "handler must be specified" ELSE nil

\* Mutant of Specified: the in-process variant is not counted.
SpecifiedWithoutFunc(h) ==
    (IF h.Exec # Null THEN 1 ELSE 0) + (IF h.HTTP # Null THEN 1 ELSE 0)

\* The counter `specified` of HandlerConfig.Validate.
Specified(h) ==
    (IF h.Exec # Null THEN 1 ELSE 0)
    + (IF h.HTTP # Null THEN 1 ELSE 0)
    + (IF h.Func # Null THEN 1 ELSE 0)

\* func (c *HandlerConfig) Validate() error
HandlerConfigValidate(h) ==
    IF Specified(h) = 0 THEN "handler must be specified"
    ELSE IF Specified(h) > 1 THEN "exactly one handler must be specified"
    ELSE IF h.Exec # Null /\ ExecHandlerConfigValidate(Deref(h.Exec)) # nil
         THEN ExecHandlerConfigValidate(Deref(h.Exec))
    ELSE IF h.HTTP # Null /\ HTTPHandlerConfigValidate(Deref(h.HTTP)) # nil
         THEN HTTPHandlerConfigValidate(Deref(h.HTTP))
    ELSE IF h.Func # Null /\ FuncHandlerConfigValidate(Deref(h.Func)) # nil
         THEN FuncHandlerConfigValidate(Deref(h.Func))
    ELSE nil

\* Mutant of InjectorConfigValidate: the test of os.Stat's error is inverted.
InjectorConfigValidateInverted(j) ==
    IF Stat(j.VerifyKeyFile) = nil
    THEN "failed to read verification key file: <nil>"
    ELSE HandlerConfigValidate(j.HandlerConfig)

\* func (c *InjectorConfig) Validate() error
InjectorConfigValidate(j) ==
    IF Stat(j.VerifyKeyFile) # nil
    THEN Wrap("failed to read verification key file", Stat(j.VerifyKeyFile))
    ELSE HandlerConfigValidate(j.HandlerConfig)

\* func (c *ReconcilerConfig) Validate() error
ReconcilerConfigValidate(r) ==
    IF r.RequeueAfter # <<>> /\ ParseDuration(r.RequeueAfter) # nil
    THEN Wrap("invalid requeueAfter", ParseDuration(r.RequeueAfter))
    ELSE HandlerConfigValidate(r.HandlerConfig)

\* func (c SyncerConfig) Validate() error
SyncerConfigValidate(s) ==
    IF s.Interval # <<>> /\ ParseDuration(s.Interval) # nil
    THEN Wrap("invalid interval", ParseDuration(s.Interval))
    ELSE nil

\* ------------------------------------------------- inputs: handler configs

DurationInputs == {<<>>, <<"1", "s">>, <<"5">>, <<"1", "x">>}
PathInputs == {"", "verify.pem", "missing.pem"}

ExecInputs == [Command : {"", "reconcile"}, Timeout : DurationInputs]
TLSInputs == [CertFile : {"", "cert.pem"}, KeyFile : {"", "key.pem"}]
HTTPInputs ==
    [URL : {"", "http://handler"},
     TLS : {Null} \cup {Ptr(t) : t \in TLSInputs},
     Timeout : DurationInputs]
FuncInputs == [Handler : {Null, Ptr("fn")}]

HandlerInputs ==
    [Exec : {Null} \cup {Ptr(e) : e \in ExecInputs},
     HTTP : {Null} \cup {Ptr(h) : h \in HTTPInputs},
     Func : {Null} \cup {Ptr(f) : f \in FuncInputs}]

\* Handler configs of an injector: the variants with their defaults.
InjectorHandlerInputs ==
    [Exec : {Null} \cup {Ptr(e) : e \in ExecInputs},
     HTTP : {Null, Ptr([URL |-> "http://handler", TLS |-> Null, Timeout |-> <<>>])},
     Func : {Null}]

InjectorInputs ==
    [HandlerConfig : InjectorHandlerInputs, VerifyKeyFile : PathInputs]

\* --------------------------------------------- direct calls of a validator

InitHandler ==
    /\ pc = "call"
    /\ recv \in [type : {"HandlerConfig"}, value : HandlerInputs]
                \cup [type : {"HTTPHandlerConfig"}, value : HTTPInputs]
                \cup [type : {"InjectorConfig"}, value : InjectorInputs]
    /\ file = Null
    /\ c = Null
    /\ i = 0
    /\ err = nil
    /\ ret = Null

CallHandlerConfigValidate ==
    /\ pc = "call"
    /\ recv.type = "HandlerConfig"
    /\ err' = HandlerConfigValidate(recv.value)
    /\ pc' = "returned"
    /\ UNCHANGED <<recv, file, c, i, ret>>

CallHTTPHandlerConfigValidate ==
    /\ pc = "call"
    /\ recv.type = "HTTPHandlerConfig"
    /\ err' = HTTPHandlerConfigValidate(recv.value)
    /\ pc' = "returned"
    /\ UNCHANGED <<recv, file, c, i, ret>>

CallInjectorConfigValidate ==
    /\ pc = "call"
    /\ recv.type = "InjectorConfig"
    /\ err' = InjectorConfigValidate(recv.value)
    /\ pc' = "returned"
    /\ UNCHANGED <<recv, file, c, i, ret>>

NextHandler ==
    \/ CallHandlerConfigValidate
    \/ CallHTTPHandlerConfigValidate
    \/ CallInjectorConfigValidate

SpecHandler == InitHandler /\ [][NextHandler]_vars

\* --------------------------------------------------- controller validators

\* func (c *ReferenceConfig) Validate() error
ReferenceConfigValidate(r) ==
    IF GVKEmpty(r.GroupVersionKind) THEN "resource is empty"
    ELSE IF r.NameFieldPath = "" THEN "nameFieldPath must be specified"
    ELSE nil

\* func (c *DependentConfig) Validate() error  (not called by the loader)
DependentConfigValidate(d) ==
    IF GVKEmpty(d.GroupVersionKind) THEN "resource is empty" ELSE nil

\* Mutant of ReferencesLoop: the list is scanned from its last entry down.
RECURSIVE ReferencesLoopBackwards(_, _)
ReferencesLoopBackwards(refs, n) ==
    LET m == Len(refs) - n
    IN  IF m <= 0 THEN nil
        ELSE IF ReferenceConfigValidate(refs[m]) # nil
             THEN WrapIndex("references", m - 1, ReferenceConfigValidate(refs[m]))
        ELSE ReferencesLoopBackwards(refs, n + 1)

\* for i, ref := range c.References { ... }, from index n on
RECURSIVE ReferencesLoop(_, _)
ReferencesLoop(refs, n) ==
    IF n >= Len(refs) THEN nil
    ELSE IF ReferenceConfigValidate(refs[n + 1]) # nil
         THEN WrapIndex("references", n, ReferenceConfigValidate(refs[n + 1]))
    ELSE ReferencesLoop(refs, n + 1)

\* for i, dep := range c.Dependents { ... }, from index n on
RECURSIVE DependentsLoop(_, _)
DependentsLoop(deps, n) ==
    IF n >= Len(deps) THEN nil
    ELSE IF GVKEmpty(deps[n + 1].GroupVersionKind)
         THEN "dependents[" \o ToString(n) \o "] is empty"
    ELSE DependentsLoop(deps, n + 1)

\* Mutant of ControllerConfigValidate: an absent finalizer is an error.
ControllerConfigValidateFinalizerRequired(k) ==
    IF k.Name = "" THEN "name must be specified"
    ELSE IF GVKEmpty(k.Resource) THEN "resource is empty"
    ELSE IF ReferencesLoop(k.References, 0) # nil
         THEN ReferencesLoop(k.References, 0)
    ELSE IF DependentsLoop(k.Dependents, 0) # nil
         THEN DependentsLoop(k.Dependents, 0)
    ELSE IF k.Reconciler = Null THEN "reconciler must be specified"
    ELSE IF ReconcilerConfigValidate(Deref(k.Reconciler)) # nil
         THEN Wrap("reconciler", ReconcilerConfigValidate(Deref(k.Reconciler)))
    ELSE IF k.Finalizer = Null THEN "finalizer must be specified"
    ELSE IF HandlerConfigValidate(Deref(k.Finalizer)) # nil
         THEN Wrap("finalizer", HandlerConfigValidate(Deref(k.Finalizer)))
    ELSE IF k.Syncer # Null /\ SyncerConfigValidate(Deref(k.Syncer)) # nil
         THEN Wrap("syncer", SyncerConfigValidate(Deref(k.Syncer)))
    ELSE nil

\* func (c *ControllerConfig) Validate() error, for a non-nil receiver
ControllerConfigValidate(k) ==
    IF k.Name = "" THEN "name must be specified"
    ELSE IF GVKEmpty(k.Resource) THEN "resource is empty"
    ELSE IF ReferencesLoop(k.References, 0) # nil
         THEN ReferencesLoop(k.References, 0)
    ELSE IF DependentsLoop(k.Dependents, 0) # nil
         THEN DependentsLoop(k.Dependents, 0)
    ELSE IF k.Reconciler = Null THEN "reconciler must be specified"
    ELSE IF ReconcilerConfigValidate(Deref(k.Reconciler)) # nil
         THEN Wrap("reconciler", ReconcilerConfigValidate(Deref(k.Reconciler)))
    ELSE IF k.Finalizer # Null /\ HandlerConfigValidate(Deref(k.Finalizer)) # nil
         THEN Wrap("finalizer", HandlerConfigValidate(Deref(k.Finalizer)))
    ELSE IF k.Syncer # Null /\ SyncerConfigValidate(Deref(k.Syncer)) # nil
         THEN Wrap("syncer", SyncerConfigValidate(Deref(k.Syncer)))
    ELSE nil

\* ---------------------------------------------- inputs: controller configs

EmptyGVK == [Group |-> "", Version |-> "", Kind |-> ""]
HelloGVK == [Group |-> "example.com", Version |-> "v1", Kind |-> "Hello"]
\* A resource of the core API group: its group is the empty string.
ConfigMapGVK == [Group |-> "", Version |-> "v1", Kind |-> "ConfigMap"]

\* Handler configs that YAML can produce (Func is tagged json:"-").
ExecOK == [Command |-> "reconcile", Timeout |-> <<>>]
HTTPOK == [URL |-> "http://handler", TLS |-> Null, Timeout |-> <<>>]
YAMLHandlerInputs ==
    [Exec : {Null} \cup {Ptr(e) : e \in ExecInputs},
     HTTP : {Null} \cup {Ptr([HTTPOK EXCEPT !.Timeout = d]) : d \in DurationInputs},
     Func : {Null}]

HandlerExec == [Exec |-> Ptr(ExecOK), HTTP |-> Null, Func |-> Null]
HandlerHTTP == [Exec |-> Null, HTTP |-> Ptr(HTTPOK), Func |-> Null]
HandlerNone == [Exec |-> Null, HTTP |-> Null, Func |-> Null]
HandlerBoth == [Exec |-> Ptr(ExecOK), HTTP |-> Ptr(HTTPOK), Func |-> Null]

ReconcilerOK == [HandlerConfig |-> HandlerExec, RequeueAfter |-> <<>>]

ReferenceInputs ==
    [GroupVersionKind : {EmptyGVK, ConfigMapGVK},
     NameFieldPath : {"", "spec.configRef.name"}]
DependentInputs == [GroupVersionKind : {EmptyGVK, ConfigMapGVK}]

\* Controllers that vary in their handlers and duration strings.
ControllerHandlerInputs ==
    [Name : {"hello"},
     Resource : {HelloGVK},
     References : {<<>>},
     Dependents : {<<>>},
     Reconciler : {Null} \cup
        {Ptr(r) : r \in [HandlerConfig : YAMLHandlerInputs,
                         RequeueAfter : DurationInputs]},
     Finalizer : {Null} \cup {Ptr(h) : h \in YAMLHandlerInputs},
     Syncer : {Null} \cup {Ptr(s) : s \in [Interval : DurationInputs]}]

\* Controllers that vary in their name, resource, references and dependents.
ControllerDescriptorInputs ==
    [Name : {"", "hello"},
     Resource : {EmptyGVK, HelloGVK},
     References : SeqUpTo(ReferenceInputs, MaxReferences),
     Dependents : SeqUpTo(DependentInputs, MaxDependents),
     Reconciler : {Null, Ptr(ReconcilerOK)},
     Finalizer : {Null},
     Syncer : {Null}]

InitController ==
    /\ pc = "call"
    /\ recv \in [type : {"ControllerConfig"},
                 value : ControllerHandlerInputs \cup ControllerDescriptorInputs]
    /\ file = Null
    /\ c = Null
    /\ i = 0
    /\ err = nil
    /\ ret = Null

CallControllerConfigValidate ==
    /\ pc = "call"
    /\ recv.type = "ControllerConfig"
    /\ err' = ControllerConfigValidate(recv.value)
    /\ pc' = "returned"
    /\ UNCHANGED <<recv, file, c, i, ret>>

NextController == CallControllerConfigValidate

SpecController == InitController /\ [][NextController]_vars

\* ------------------------------------------------ webhook, metrics, config

\* Mutant of WebhookTLSConfigValidate: the emptiness tests are inverted.
WebhookTLSConfigValidateInverted(t) ==
    IF t.CertFile # "" THEN "cert file must be specified"
    ELSE IF t.KeyFile # "" THEN "key file must be specified"
    ELSE nil

\* func (c *WebhookTLSConfig) Validate() error
WebhookTLSConfigValidate(t) ==
    IF t.CertFile = "" THEN "cert file must be specified"
    ELSE IF t.KeyFile = "" THEN "key file must be specified"
    ELSE nil

\* func (c *WebhookConfig) Validate() error  (c.Handlers is not read)
WebhookConfigValidate(w) ==
    IF w.TLS = Null THEN "tls must be specified"
    ELSE IF WebhookTLSConfigValidate(Deref(w.TLS)) # nil
         THEN Wrap("tls", WebhookTLSConfigValidate(Deref(w.TLS)))
    ELSE nil

\* func (c *WebhookHandlerConfig) Validate() error  (no caller in the package)
WebhookHandlerConfigValidate(h) ==
    IF GVKEmpty(h.Resource) THEN "resource is empty"
    ELSE IF h.Validator # Null /\ HandlerConfigValidate(Deref(h.Validator)) # nil
         THEN Wrap("validator", HandlerConfigValidate(Deref(h.Validator)))
    ELSE nil

\* func (c *MetricsConfig) Validate() error
MetricsConfigValidate(m) ==
    IF m.Port = 0 THEN "port must be specified" ELSE nil

\* -------------------------------------------------------- inputs: configs

Controller(name, reconciler, finalizer) ==
    [Name |-> name, Resource |-> HelloGVK, References |-> <<>>,
     Dependents |-> <<>>, Reconciler |-> reconciler,
     Finalizer |-> finalizer, Syncer |-> Null]

\* Entries of the controllers list: YAML null, or a controller.
ControllerEntryInputs ==
    {Null}
    \cup {Ptr(Controller(n, Ptr(ReconcilerOK), Null)) : n \in {"", "hello", "world"}}
    \cup {Ptr(Controller("hello", Ptr(r), f)) :
            r \in {ReconcilerOK, [ReconcilerOK EXCEPT !.HandlerConfig = HandlerBoth]},
            f \in {Null, Ptr(HandlerNone), Ptr(HandlerHTTP)}}

InjectorNone == [HandlerConfig |-> HandlerNone, VerifyKeyFile |-> "verify.pem"]

WebhookHandlerInputs ==
    [Resource : {HelloGVK},
     Validator : {Null, Ptr(HandlerNone), Ptr(HandlerExec)},
     Mutator : {Null, Ptr(HandlerBoth)},
     Injector : {Null, Ptr(InjectorNone)}]

WebhookTLSInputs == [CertFile : {"", "cert.pem"}, KeyFile : {"", "key.pem"}]

WebhookInputs ==
    [TLS : {Null} \cup {Ptr(t) : t \in WebhookTLSInputs},
     Handlers : {<<>>} \cup {<<Ptr(h)>> : h \in WebhookHandlerInputs}]

MetricsInputs == [Port : {0, 9090}]

ConfigInputs ==
    [Controllers : SeqUpTo(ControllerEntryInputs, MaxControllers),
     Webhook : {Null} \cup {Ptr(w) : w \in WebhookInputs},
     Metrics : {Null} \cup {Ptr(m) : m \in MetricsInputs}]

FileInputs ==
    {[kind |-> "unreadable"], [kind |-> "malformed"]}
    \cup [kind : {"yaml"}, config : ConfigInputs]

\* ----------------------------------------------------------------- LoadFile

Init ==
    /\ pc = "ReadFile"
    /\ recv = Null
    /\ file \in FileInputs
    /\ c = Null
    /\ i = 0
    /\ err = nil
    /\ ret = Null

\* buf, err := ioutil.ReadFile(p); if err != nil { return nil, err }
ReadFile ==
    /\ pc = "ReadFile"
    /\ IF file.kind = "unreadable"
       THEN /\ err' = "open: no such file or directory"
            /\ pc' = "done"
       ELSE /\ err' = err
            /\ pc' = "Unmarshal"
    /\ UNCHANGED <<recv, file, c, i, ret>>

\* c := &Config{}; err = yaml.Unmarshal(buf, c); if err != nil { return nil, err }
Unmarshal ==
    /\ pc = "Unmarshal"
    /\ IF file.kind = "malformed"
       THEN /\ err' = "yaml: unmarshal error"
            /\ pc' = "done"
            /\ c' = c
       ELSE /\ err' = err
            /\ pc' = "controllers"
            /\ c' = Ptr(file.config)
    /\ UNCHANGED <<recv, file, i, ret>>

\* Mutant of ValidateController: the loop records the error and goes on.
ValidateControllerNoReturn ==
    /\ pc = "controllers"
    /\ LET cs == Deref(c).Controllers
       IN  IF i >= Len(cs)
           THEN /\ pc' = "webhook"
                /\ UNCHANGED <<i, err>>
           ELSE IF cs[i + 1] = Null
           THEN /\ pc' = "panic"
                /\ UNCHANGED <<i, err>>
           ELSE /\ err' = IF ControllerConfigValidate(Deref(cs[i + 1])) # nil
                          THEN WrapIndex("controller", i,
                                    ControllerConfigValidate(Deref(cs[i + 1])))
                          ELSE err
                /\ i' = i + 1
                /\ pc' = pc
    /\ UNCHANGED <<recv, file, c, ret>>

\* One pass of `for i, controller := range c.Controllers` in Config.Validate;
\* calling Validate on a nil *ControllerConfig panics at c.Name.
ValidateController ==
    /\ pc = "controllers"
    /\ LET cs == Deref(c).Controllers
       IN  IF i >= Len(cs)
           THEN /\ pc' = "webhook"
                /\ UNCHANGED <<i, err>>
           ELSE IF cs[i + 1] = Null
           THEN /\ pc' = "panic"
                /\ UNCHANGED <<i, err>>
           ELSE IF ControllerConfigValidate(Deref(cs[i + 1])) # nil
           THEN /\ err' = WrapIndex("controller", i,
                                    ControllerConfigValidate(Deref(cs[i + 1])))
                /\ pc' = "return"
                /\ i' = i
           ELSE /\ i' = i + 1
                /\ UNCHANGED <<pc, err>>
    /\ UNCHANGED <<recv, file, c, ret>>

\* if c.Webhook != nil { ... } in Config.Validate
ValidateWebhook ==
    /\ pc = "webhook"
    /\ LET w == Deref(c).Webhook
       IN  IF w # Null /\ WebhookConfigValidate(Deref(w)) # nil
           THEN /\ err' = Wrap("webhook", WebhookConfigValidate(Deref(w)))
                /\ pc' = "return"
           ELSE /\ err' = err
                /\ pc' = "metrics"
    /\ UNCHANGED <<recv, file, c, i, ret>>

\* if c.Metrics != nil { ... }; return nil in Config.Validate
ValidateMetrics ==
    /\ pc = "metrics"
    /\ LET m == Deref(c).Metrics
       IN  IF m # Null /\ MetricsConfigValidate(Deref(m)) # nil
           THEN err' = Wrap("metrics", MetricsConfigValidate(Deref(m)))
           ELSE err' = nil
    /\ pc' = "return"
    /\ UNCHANGED <<recv, file, c, i, ret>>

\* err = c.Validate(); if err != nil { return nil, err }; return c, nil
Return ==
    /\ pc = "return"
    /\ ret' = IF err # nil THEN Null ELSE c
    /\ pc' = "done"
    /\ UNCHANGED <<recv, file, c, i, err>>

Next ==
    \/ ReadFile
    \/ Unmarshal
    \/ ValidateController
    \/ ValidateWebhook
    \/ ValidateMetrics
    \/ Return

Spec == Init /\ [][Next]_vars

\* ------------------------------------------------------------------ claims

\* The variants of a handler config that are set.
VariantsSet(h) == {f \in {"Exec", "HTTP", "Func"} : h[f] # Null}

ReturnedFrom(type) == pc = "returned" /\ recv.type = type

\* C1: HandlerConfig.Validate rejects a handler config with no variant set
\* and one with more than one variant set; with exactly one variant set it
\* returns exactly what that variant's own Validate returns.
C1_ExactlyOneVariant ==
    ReturnedFrom("HandlerConfig") =>
        LET h == recv.value
        IN  /\ Cardinality(VariantsSet(h)) = 0 => err # nil
            /\ Cardinality(VariantsSet(h)) > 1 => err # nil
            /\ VariantsSet(h) = {"Exec"} =>
                    err = ExecHandlerConfigValidate(Deref(h.Exec))
            /\ VariantsSet(h) = {"HTTP"} =>
                    err = HTTPHandlerConfigValidate(Deref(h.HTTP))
            /\ VariantsSet(h) = {"Func"} =>
                    err = FuncHandlerConfigValidate(Deref(h.Func))

\* C1 witness: a config with only the in-process variant, set and valid, is
\* accepted.
C1_Witness ==
    /\ ReturnedFrom("HandlerConfig")
    /\ VariantsSet(recv.value) = {"Func"}
    /\ Deref(recv.value.Func).Handler # Null
    /\ err = nil

\* C3: an HTTP handler with a tls block is accepted only if certFile and
\* keyFile are both non-empty; a tls block with an empty certFile or keyFile
\* is rejected, and one with non-empty readable cert and key paths (the rest
\* of the handler being valid) is accepted.
C3_TLSBlockNeedsCertAndKey ==
    (ReturnedFrom("HTTPHandlerConfig") /\ recv.value.TLS # Null) =>
        LET h == recv.value
            t == Deref(h.TLS)
        IN  /\ err = nil => (t.CertFile # "" /\ t.KeyFile # "")
            /\ (t.CertFile = "" \/ t.KeyFile = "") => err # nil
            /\ ( /\ t.CertFile # "" /\ Stat(t.CertFile) = nil
                 /\ t.KeyFile # "" /\ Stat(t.KeyFile) = nil
                 /\ h.URL # ""
                 /\ (h.Timeout = <<>> \/ ParseDuration(h.Timeout) = nil) )
               => err = nil

\* C4: InjectorConfig.Validate returns an error whenever verifyKeyFile does
\* not name an existing file (the empty path included); when the file exists
\* it returns exactly the result of validating the embedded handler config.
C4_VerifyKeyFileMustExist ==
    ReturnedFrom("InjectorConfig") =>
        LET j == recv.value
        IN  /\ j.VerifyKeyFile \notin ExistingFiles =>
                    /\ err # nil
                    /\ err # HandlerConfigValidate(j.HandlerConfig)
            /\ j.VerifyKeyFile \in ExistingFiles =>
                    err = HandlerConfigValidate(j.HandlerConfig)

\* C4 witness: an injector whose handler is valid is rejected for its empty
\* verifyKeyFile.
C4_Witness ==
    /\ ReturnedFrom("InjectorConfig")
    /\ recv.value.VerifyKeyFile = ""
    /\ HandlerConfigValidate(recv.value.HandlerConfig) = nil
    /\ err # nil

Min(S) == CHOOSE x \in S : \A y \in S : x <= y

\* Indices (1-based) of the reference descriptors a controller must not have.
BadReferences(k) ==
    {n \in 1..Len(k.References) :
        \/ GVKEmpty(k.References[n].GroupVersionKind)
        \/ k.References[n].NameFieldPath = ""}

\* Indices (1-based) of the dependent descriptors a controller must not have.
BadDependents(k) ==
    {n \in 1..Len(k.Dependents) : GVKEmpty(k.Dependents[n].GroupVersionKind)}

DescriptorsValid(k) ==
    /\ k.Name # ""
    /\ ~GVKEmpty(k.Resource)
    /\ BadReferences(k) = {}
    /\ BadDependents(k) = {}

\* C6: ControllerConfig.Validate rejects every controller without a
\* reconciler, and accepts a controller without finalizer and syncer whenever
\* its name, resource, references, dependents and reconciler are valid.
C6_ReconcilerMandatory ==
    ReturnedFrom("ControllerConfig") =>
        LET k == recv.value
        IN  /\ k.Reconciler = Null => err # nil
            /\ (DescriptorsValid(k) /\ k.Reconciler = Null)
                    => err = "reconciler must be specified"
            /\ ( /\ DescriptorsValid(k)
                 /\ k.Reconciler # Null
                 /\ ReconcilerConfigValidate(Deref(k.Reconciler)) = nil
                 /\ k.Finalizer = Null
                 /\ k.Syncer = Null )
               => err = nil

\* C6 witness: a controller with a reconciler and neither finalizer nor
\* syncer is accepted.
C6_Witness ==
    /\ ReturnedFrom("ControllerConfig")
    /\ recv.value.Reconciler # Null
    /\ recv.value.Finalizer = Null
    /\ recv.value.Syncer = Null
    /\ err = nil

\* The timeouts a handler config carries.
HandlerTimeouts(h) ==
    (IF h.Exec # Null THEN {Deref(h.Exec).Timeout} ELSE {})
    \cup (IF h.HTTP # Null THEN {Deref(h.HTTP).Timeout} ELSE {})

\* The duration strings of a controller: reconciler.requeueAfter, the exec or
\* http timeout of the reconciler and of the finalizer, syncer.interval.
DurationFields(k) ==
    (IF k.Reconciler # Null
     THEN {Deref(k.Reconciler).RequeueAfter}
          \cup HandlerTimeouts(Deref(k.Reconciler).HandlerConfig)
     ELSE {})
    \cup (IF k.Finalizer # Null THEN HandlerTimeouts(Deref(k.Finalizer)) ELSE {})
    \cup (IF k.Syncer # Null THEN {Deref(k.Syncer).Interval} ELSE {})

\* A handler config that is valid but for its timeout.
HandlerShapeValid(h) ==
    /\ Cardinality(VariantsSet(h)) = 1
    /\ h.Exec # Null => Deref(h.Exec).Command # ""
    /\ h.HTTP # Null =>
          /\ Deref(h.HTTP).URL # ""
          /\ Deref(h.HTTP).TLS # Null =>
                HTTPHanlderTLSConfigValidate(Deref(Deref(h.HTTP).TLS)) = nil
    /\ h.Func # Null => Deref(h.Func).Handler # Null

\* A controller that is valid but for its duration strings.
ControllerShapeValid(k) ==
    /\ DescriptorsValid(k)
    /\ k.Reconciler # Null
    /\ HandlerShapeValid(Deref(k.Reconciler).HandlerConfig)
    /\ k.Finalizer # Null => HandlerShapeValid(Deref(k.Finalizer))

\* C8: in every controller ControllerConfig.Validate accepts, each duration
\* field is empty or parses as a duration (so a non-empty unparsable one causes
\* rejection), and empty duration strings never cause rejection: a controller
\* whose duration fields are all empty or parsable is accepted exactly when
\* the rest of it is valid.
C8_DurationsEmptyOrParsable ==
    ReturnedFrom("ControllerConfig") =>
        LET k == recv.value
            ok == \A d \in DurationFields(k) : d = <<>> \/ ParseDuration(d) = nil
        IN  /\ err = nil => ok
            /\ ok => (err = nil <=> ControllerShapeValid(k))

\* C8 witness: an accepted controller with an empty syncer interval, an empty
\* finalizer timeout and a parsable reconciler timeout.
C8_Witness ==
    /\ ReturnedFrom("ControllerConfig")
    /\ err = nil
    /\ recv.value.Syncer # Null
    /\ Deref(recv.value.Syncer).Interval = <<>>
    /\ recv.value.Finalizer # Null
    /\ HandlerTimeouts(Deref(recv.value.Finalizer)) = {<<>>}
    /\ HandlerTimeouts(Deref(recv.value.Reconciler).HandlerConfig) = {<<"1", "s">>}

ReferenceErrors == {"resource is empty", "nameFieldPath must be specified"}

\* The error that names the first offending descriptor of k.
FirstDescriptorError(k, e) ==
    /\ BadReferences(k) # {} =>
          e \in {WrapIndex("references", Min(BadReferences(k)) - 1, m) :
                    m \in ReferenceErrors}
    /\ (BadReferences(k) = {} /\ BadDependents(k) # {}) =>
          e = "dependents[" \o ToString(Min(BadDependents(k)) - 1) \o "] is empty"

\* C9 as stated: a controller with an offending reference or dependent
\* descriptor is rejected, references are checked before dependents in index
\* order, and the error names the index of the first offending entry.
C9_ErrorNamesFirstOffendingDescriptor ==
    ReturnedFrom("ControllerConfig") =>
        /\ (BadReferences(recv.value) \cup BadDependents(recv.value)) # {}
                => err # nil
        /\ FirstDescriptorError(recv.value, err)

\* C9 amended: a controller with an offending reference or dependent
\* descriptor is rejected; when its name and resource are non-empty, the error
\* names the index of the first offending entry, references before dependents,
\* each list in index order.
C9_ErrorNamesFirstOffendingDescriptorAfterNameAndResource ==
    ReturnedFrom("ControllerConfig") =>
        /\ (BadReferences(recv.value) \cup BadDependents(recv.value)) # {}
                => err # nil
        /\ (recv.value.Name # "" /\ ~GVKEmpty(recv.value.Resource))
                => FirstDescriptorError(recv.value, err)

\* C9 witness: the second reference and the first dependent are offending, and
\* the error names references[1].
C9_Witness ==
    /\ ReturnedFrom("ControllerConfig")
    /\ BadReferences(recv.value) = {2}
    /\ 1 \in BadDependents(recv.value)
    /\ err = "references[1]: nameFieldPath must be specified"

\* LoadFile returned a config.
Accepted == pc = "done" /\ ret # Null

ExactlyOneVariant(h) == Cardinality(VariantsSet(h)) = 1

\* C2: in every Config that LoadFile accepts, every handler slot that is
\* present has exactly one variant configured: each controller's reconciler
\* and finalizer, and each webhook handler's validator, mutator and injector.
C2_AcceptedSlotsHaveOneVariant ==
    Accepted =>
        LET cfg == Deref(ret)
        IN  /\ \A n \in 1..Len(cfg.Controllers) :
                  LET k == Deref(cfg.Controllers[n])
                  IN  /\ ExactlyOneVariant(Deref(k.Reconciler).HandlerConfig)
                      /\ k.Finalizer # Null => ExactlyOneVariant(Deref(k.Finalizer))
            /\ cfg.Webhook # Null =>
                  \A n \in 1..Len(Deref(cfg.Webhook).Handlers) :
                      LET h == Deref(Deref(cfg.Webhook).Handlers[n])
                      IN  /\ h.Validator # Null => ExactlyOneVariant(Deref(h.Validator))
                          /\ h.Mutator # Null => ExactlyOneVariant(Deref(h.Mutator))
                          /\ h.Injector # Null =>
                                ExactlyOneVariant(Deref(h.Injector).HandlerConfig)

WebhookErrors ==
    {Wrap("webhook", m) :
        m \in {"tls must be specified", "tls: cert file must be specified",
               "tls: key file must be specified"}}

\* C5: a Config with a webhook section is accepted only if webhook.tls is
\* present with non-empty certFile and keyFile; a Config without a webhook
\* section never fails with a webhook error.
C5_WebhookCertificateMandatory ==
    /\ (Accepted /\ Deref(ret).Webhook # Null) =>
            LET w == Deref(Deref(ret).Webhook)
            IN  /\ w.TLS # Null
                /\ Deref(w.TLS).CertFile # ""
                /\ Deref(w.TLS).KeyFile # ""
    /\ (pc = "done" /\ c # Null /\ Deref(c).Webhook = Null) =>
            err \notin WebhookErrors

\* C5 witness: a Config with a webhook section and its certificate is
\* accepted.
C5_Witness ==
    /\ Accepted
    /\ Deref(ret).Webhook # Null
    /\ Deref(Deref(Deref(ret).Webhook).TLS).CertFile = "cert.pem"

\* C7: in every Config that LoadFile accepts, every controller has a
\* non-empty name and no two controllers have the same name.
C7_ControllerNamesUnique ==
    Accepted =>
        LET cs == Deref(ret).Controllers
        IN  /\ \A n \in 1..Len(cs) : Deref(cs[n]).Name # ""
            /\ \A m, n \in 1..Len(cs) :
                  m # n => Deref(cs[m]).Name # Deref(cs[n]).Name

\* Indices (1-based) of the entries of cs that are not valid controllers.
InvalidControllers(cs) ==
    {n \in 1..Len(cs) :
        cs[n] = Null \/ ControllerConfigValidate(Deref(cs[n])) # nil}

WebhookInvalid(cfg) ==
    cfg.Webhook # Null /\ WebhookConfigValidate(Deref(cfg.Webhook)) # nil

MetricsInvalid(cfg) ==
    cfg.Metrics # Null /\ MetricsConfigValidate(Deref(cfg.Metrics)) # nil

\* C10: Config.Validate checks the controllers in index order, then the
\* webhook, then the metrics, and stops at the first failure: the webhook is
\* reached only when every controller is valid and the metrics only when the
\* webhook is valid too; the error returned is controller[i] for the smallest
\* invalid i, else the webhook's, else the metrics'; else nil, and LoadFile
\* returns the config exactly then.
C10_SectionsInOrderFirstFailure ==
    /\ pc \in {"webhook", "metrics"} =>
            InvalidControllers(Deref(c).Controllers) = {}
    /\ pc = "metrics" => ~WebhookInvalid(Deref(c))
    /\ (pc \in {"return", "done"} /\ c # Null) =>
            LET cfg == Deref(c)
                bad == InvalidControllers(cfg.Controllers)
            IN  IF bad # {}
                THEN /\ cfg.Controllers[Min(bad)] # Null
                     /\ err = WrapIndex("controller", Min(bad) - 1,
                            ControllerConfigValidate(Deref(cfg.Controllers[Min(bad)])))
                ELSE IF WebhookInvalid(cfg)
                THEN err = Wrap("webhook", WebhookConfigValidate(Deref(cfg.Webhook)))
                ELSE IF MetricsInvalid(cfg)
                THEN err = Wrap("metrics", MetricsConfigValidate(Deref(cfg.Metrics)))
                ELSE err = nil
    /\ pc = "done" => (ret # Null <=> err = nil)
    /\ ret # Null => ret = c

\* C10 witness: the second controller, the webhook and the metrics are all
\* invalid, and the error returned is the second controller's.
C10_Witness ==
    /\ pc = "done"
    /\ c # Null
    /\ InvalidControllers(Deref(c).Controllers) = {2}
    /\ WebhookInvalid(Deref(c))
    /\ MetricsInvalid(Deref(c))
    /\ err = "controller[1]: name must be specified"

\* C11: for every Config that YAML loading can produce (a null entry in the
\* controllers list and absent webhook, metrics, finalizer or syncer
\* included), Config.Validate never dereferences a nil pointer and always
\* completes with a result: no run panics, and a run that has not yet
\* returned can take its next step.
C11_ValidateNeverPanics ==
    /\ pc # "panic"
    /\ pc # "done" => ENABLED Next

====
